---- MODULE Spec2Model ----
(***************************************************************************)
(* Model of @feature-sliced/filesystem: the FSD-aware classifier of        *)
(* src/src/fsd-aware-traverse.ts (its current revision, lines 162-375) and *)
(* the import resolver exercised by the test in src/unnamed/part_000.      *)
(*                                                                         *)
(* Strings are modelled by what the code does with them:                   *)
(*   - a file name is the sequence of its "."-separated tokens,            *)
(*       "index.client.ts" = <<"index", "client", "ts">>,  "." = <<"","">> *)
(*   - a path is the sequence of its "/"-separated file names,             *)
(*       "./src/ui.ts" = << <<"","">>, <<"src">>, <<"ui","ts">> >>,        *)
(*     and the empty string is the empty sequence.                         *)
(* Paths are relative POSIX paths.  A JavaScript object used as a mapping  *)
(* is the sequence of its [key, value] entries in insertion order.         *)
(***************************************************************************)
EXTENDS Naturals, Sequences, FiniteSets

VARIABLES root, call, ret

vars == <<root, call, ret>>

-----------------------------------------------------------------------------
(* Generic sequence helpers *)

Front(s) == SubSeq(s, 1, Len(s) - 1)

Last(s) == s[Len(s)]

Range(s) == {s[i] : i \in 1..Len(s)}

includes(s, x) == \E i \in 1..Len(s) : s[i] = x

RECURSIVE filter(_, _)
\* Array.prototype.filter with the keep-set of the predicate
filter(s, keep) ==
  IF s = <<>> THEN <<>>
  ELSE IF Head(s) \in keep THEN <<Head(s)>> \o filter(Tail(s), keep)
       ELSE filter(Tail(s), keep)

-----------------------------------------------------------------------------
(* node:path (posix) *)

Dot == <<"", "">>

DotDot == <<"", "", "">>

EmptySeg == <<"">>

\* a plain name without extension, as a path segment and as a one-segment path
Name(s) == <<s>>

basename(path) == IF path = <<>> THEN EmptySeg ELSE Last(path)

RECURSIVE normalizeSegs(_, _)
normalizeSegs(rest, acc) ==
  IF rest = <<>> THEN acc
  ELSE LET s == Head(rest) IN
       IF s = Dot \/ s = EmptySeg THEN normalizeSegs(Tail(rest), acc)
       ELSE IF s = DotDot /\ acc # <<>> /\ Last(acc) # DotDot
            THEN normalizeSegs(Tail(rest), Front(acc))
            ELSE normalizeSegs(Tail(rest), Append(acc, s))

normalize(path) ==
  LET n == normalizeSegs(path, <<>>) IN IF n = <<>> THEN <<Dot>> ELSE n

RECURSIVE concatAll(_)
concatAll(parts) ==
  IF parts = <<>> THEN <<>> ELSE Head(parts) \o concatAll(Tail(parts))

\* path.join(...parts): the parts joined by "/" and normalized
join(parts) == normalize(concatAll(parts))

\* path.parse(path): dir is the text before the last "/", name the base
\* without its last extension (a leading dot starts no extension)
parse(path) ==
  LET base == basename(path)
      hasExt == /\ Len(base) >= 2
                /\ ~(Len(base) = 2 /\ base[1] = "")
                /\ base # DotDot
  IN [dir  |-> IF path = <<>> THEN <<>> ELSE Front(path),
      base |-> base,
      name |-> IF hasExt THEN Front(base) ELSE base]

-----------------------------------------------------------------------------
(* JavaScript objects as insertion-ordered mappings *)

hasKey(m, k) == \E i \in 1..Len(m) : m[i].key = k

lookup(m, k) == m[CHOOSE i \in 1..Len(m) : m[i].key = k].value

keysOf(m) == {m[i].key : i \in 1..Len(m)}

\* obj[k] = v : an existing key keeps its place and takes the new value
put(m, k, v) ==
  IF hasKey(m, k)
  THEN [i \in 1..Len(m) |-> IF m[i].key = k THEN [key |-> k, value |-> v] ELSE m[i]]
  ELSE Append(m, [key |-> k, value |-> v])

RECURSIVE putAll(_, _)
\* {...m, ...entries}
putAll(m, entries) ==
  IF entries = <<>> THEN m
  ELSE putAll(put(m, Head(entries).key, Head(entries).value), Tail(entries))

fromEntries(entries) == putAll(<<>>, entries)

-----------------------------------------------------------------------------
(* definitions.js *)

layerSequence ==
  <<Name("shared"), Name("entities"), Name("features"),
    Name("widgets"), Name("pages"), Name("app")>>

unslicedLayers == <<Name("shared"), Name("app")>>

conventionalSegmentNames ==
  <<Name("ui"), Name("api"), Name("lib"), Name("model"), Name("config")>>

File(path) == [type |-> "file", path |-> path, children |-> <<>>]

Folder(path, children) == [type |-> "folder", path |-> path, children |-> children]

-----------------------------------------------------------------------------
(* fsd-aware-traverse.ts *)

\* mutant: only a file named exactly index.<ext> counts (the criterion of
\* the earlier getIndex)
isIndex_exactName(fileOrFolder) ==
  IF fileOrFolder.type = "file"
  THEN parse(fileOrFolder.path).name = Name("index")
  ELSE FALSE

isIndex(fileOrFolder) ==
  IF fileOrFolder.type = "file"
  THEN parse(fileOrFolder.path).name[1] = "index"
  ELSE FALSE

getIndexes(fileOrFolder) ==
  IF fileOrFolder.type = "file"
  THEN <<fileOrFolder>>
  ELSE filter(fileOrFolder.children,
              {c \in Range(fileOrFolder.children) : isIndex(c)})

\* mutant: only the first child is looked at
isSlice_firstChild(folder, additionalSegmentNames) ==
  /\ folder.children # <<>>
  /\ includes(conventionalSegmentNames \o additionalSegmentNames,
              parse(folder.children[1].path).name)

isSlice(folder, additionalSegmentNames) ==
  \E i \in 1..Len(folder.children) :
     includes(conventionalSegmentNames \o additionalSegmentNames,
              parse(folder.children[i].path).name)

isSliced(layerOrName) ==
  ~includes(unslicedLayers, basename(layerOrName.path))

\* mutant: the type of the child is not checked
getLayers_anyType(fsdRoot) ==
  LET kept == filter(fsdRoot.children,
                     {c \in Range(fsdRoot.children) :
                        includes(layerSequence, basename(c.path))})
  IN fromEntries([i \in 1..Len(kept) |->
                    [key |-> basename(kept[i].path), value |-> kept[i]]])

getLayers(fsdRoot) ==
  LET kept == filter(fsdRoot.children,
                     {c \in Range(fsdRoot.children) :
                        c.type = "folder" /\ includes(layerSequence, basename(c.path))})
  IN fromEntries([i \in 1..Len(kept) |->
                    [key |-> basename(kept[i].path), value |-> kept[i]]])

RECURSIVE traverse(_, _, _, _)
RECURSIVE traverseChildren(_, _, _, _, _)
\* mutant: a slice is recorded and the descent goes on below it
traverse_keepDescending(folder, pathPrefix, additionalSegmentNames, slices) ==
  traverseChildren(folder.children,
                   join(<<pathPrefix, <<basename(folder.path)>> >>),
                   additionalSegmentNames,
                   IF isSlice(folder, additionalSegmentNames)
                   THEN put(slices, join(<<pathPrefix, <<basename(folder.path)>> >>), folder)
                   ELSE slices,
                   1)

\* mutant: a slice is recorded under its own basename, the prefix dropped
traverse_noPrefix(folder, pathPrefix, additionalSegmentNames, slices) ==
  IF isSlice(folder, additionalSegmentNames)
  THEN put(slices, join(<< <<basename(folder.path)>> >>), folder)
  ELSE traverseChildren(folder.children,
                        join(<<pathPrefix, <<basename(folder.path)>> >>),
                        additionalSegmentNames, slices, 1)

\* getSlices.traverse: `slices` is threaded through instead of mutated
traverse(folder, pathPrefix, additionalSegmentNames, slices) ==
  IF isSlice(folder, additionalSegmentNames)
  THEN put(slices, join(<<pathPrefix, <<basename(folder.path)>> >>), folder)
  ELSE traverseChildren(folder.children,
                        join(<<pathPrefix, <<basename(folder.path)>> >>),
                        additionalSegmentNames, slices, 1)

\* folder.children.forEach(child => child.type === "folder" && traverse(child, prefix))
traverseChildren(children, prefix, additionalSegmentNames, slices, i) ==
  IF i > Len(children) THEN slices
  ELSE traverseChildren(children, prefix, additionalSegmentNames,
         IF children[i].type = "folder"
         THEN traverse(children[i], prefix, additionalSegmentNames, slices)
         ELSE slices,
         i + 1)

RECURSIVE getSlicesLoop(_, _, _, _)
\* for (const child of slicedLayer.children) if folder: traverse(child)
getSlicesLoop(children, additionalSegmentNames, slices, i) ==
  IF i > Len(children) THEN slices
  ELSE getSlicesLoop(children, additionalSegmentNames,
         IF children[i].type = "folder"
         THEN traverse(children[i], <<>>, additionalSegmentNames, slices)
         ELSE slices,
         i + 1)

getSlices(slicedLayer, additionalSegmentNames) ==
  getSlicesLoop(slicedLayer.children, additionalSegmentNames, <<>>, 1)

\* withoutExtension of the earlier revision: the text before the last "."
withoutExtension(filename) ==
  IF Len(filename) = 1 THEN filename ELSE Front(filename)

\* mutant: getSegments of the earlier revision, which drops only the files
\* named exactly index.<ext>
getSegments_v1(sliceOrUnslicedLayer) ==
  LET kept == filter(sliceOrUnslicedLayer.children,
                     {c \in Range(sliceOrUnslicedLayer.children) :
                        c.type # "file"
                        \/ withoutExtension(basename(c.path)) # Name("index")})
  IN fromEntries([i \in 1..Len(kept) |->
                    [key |-> withoutExtension(basename(kept[i].path)),
                     value |-> kept[i]]])

getSegments(sliceOrUnslicedLayer) ==
  LET kept == filter(sliceOrUnslicedLayer.children,
                     {c \in Range(sliceOrUnslicedLayer.children) : ~isIndex(c)})
  IN fromEntries([i \in 1..Len(kept) |->
                    [key |-> parse(kept[i].path).name, value |-> kept[i]]])

\* the slices of one layer, each tagged with the layer's name
taggedSlices(layer, additionalSegmentNames) ==
  LET found == getSlices(layer, additionalSegmentNames)
  IN fromEntries([j \in 1..Len(found) |->
                    [key   |-> found[j].key,
                     value |-> [type      |-> found[j].value.type,
                                path      |-> found[j].value.path,
                                children  |-> found[j].value.children,
                                layerName |-> basename(layer.path)]]])

RECURSIVE getAllSlicesReduce_firstWins(_, _, _, _)
\* mutant: {...new, ...slices}, the layer iterated first keeps its entry
getAllSlicesReduce_firstWins(layers, additionalSegmentNames, slices, i) ==
  IF i > Len(layers) THEN slices
  ELSE getAllSlicesReduce_firstWins(layers, additionalSegmentNames,
         putAll(taggedSlices(layers[i], additionalSegmentNames), slices), i + 1)

RECURSIVE getAllSlicesReduce(_, _, _, _)
\* .reduce((slices, layer) => ({...slices, ...tagged getSlices(layer)}), {})
getAllSlicesReduce(layers, additionalSegmentNames, slices, i) ==
  IF i > Len(layers) THEN slices
  ELSE getAllSlicesReduce(layers, additionalSegmentNames,
         putAll(slices, taggedSlices(layers[i], additionalSegmentNames)), i + 1)

getAllSlices(fsdRoot, additionalSegmentNames) ==
  LET layers == getLayers(fsdRoot)
      values == [i \in 1..Len(layers) |-> layers[i].value]
      sliced == filter(values, {l \in Range(values) : isSliced(l)})
  IN getAllSlicesReduce(sliced, additionalSegmentNames, <<>>, 1)

\* `string | null`: null is the empty set, a string s the set {s}
Null == {}

Some(x) == {x}

\* the entries of one slice (or of an unsliced layer, sliceName = null)
segmentEntries(folder, sliceName, layerName) ==
  LET segs == getSegments(folder)
  IN [i \in 1..Len(segs) |->
        [segment     |-> segs[i].value,
         segmentName |-> segs[i].key,
         sliceName   |-> sliceName,
         layerName   |-> layerName]]

RECURSIVE flatMapSlices(_, _, _)
flatMapSlices(slices, layerName, i) ==
  IF i > Len(slices) THEN <<>>
  ELSE segmentEntries(slices[i].value, Some(slices[i].key), layerName)
       \o flatMapSlices(slices, layerName, i + 1)

RECURSIVE flatMapLayers_allSliced(_, _)
\* mutant: every layer is taken for a sliced one
flatMapLayers_allSliced(layers, i) ==
  IF i > Len(layers) THEN <<>>
  ELSE flatMapSlices(getSlices(layers[i].value, <<>>), layers[i].key, 1)
       \o flatMapLayers_allSliced(layers, i + 1)

RECURSIVE flatMapLayers(_, _)
flatMapLayers(layers, i) ==
  IF i > Len(layers) THEN <<>>
  ELSE (IF isSliced(layers[i].value)
        THEN flatMapSlices(getSlices(layers[i].value, <<>>), layers[i].key, 1)
        ELSE segmentEntries(layers[i].value, Null, layers[i].key))
       \o flatMapLayers(layers, i + 1)

getAllSegments(fsdRoot) == flatMapLayers(getLayers(fsdRoot), 1)

isCrossImportPublicApi(file, inSlice, forSlice, layerPath) ==
  LET p == parse(file.path)
  IN p.name = forSlice /\ p.dir = join(<<layerPath, inSlice, <<Name("@x")>> >>)

-----------------------------------------------------------------------------
(* The tree handed to the classifier: an external walker lists entries of  *)
(* a directory tree; each entry's path is its parent's path plus its name. *)

RECURSIVE nodeCount(_)
RECURSIVE nodeCountSeq(_, _)
nodeCount(node) == 1 + nodeCountSeq(node.children, 1)

nodeCountSeq(children, i) ==
  IF i > Len(children) THEN 0
  ELSE nodeCount(children[i]) + nodeCountSeq(children, i + 1)

RECURSIVE nodesOf(_)
\* every node of the tree, the node itself included
nodesOf(node) ==
  {node} \cup UNION {nodesOf(node.children[i]) : i \in 1..Len(node.children)}

foldersOf(node) == {n \in nodesOf(node) : n.type = "folder"}

pathsOf(node) == {n.path : n \in nodesOf(node)}

RECURSIVE addNode(_, _)
\* the tree with `new` appended to the children of the folder it lies in
addNode(node, new) ==
  IF node.path = Front(new.path)
  THEN Folder(node.path, Append(node.children, new))
  ELSE Folder(node.path,
              [i \in 1..Len(node.children) |->
                 IF /\ node.children[i].type = "folder"
                    /\ Len(node.children[i].path) < Len(new.path)
                    /\ SubSeq(new.path, 1, Len(node.children[i].path))
                         = node.children[i].path
                 THEN addNode(node.children[i], new)
                 ELSE node.children[i]])

\* the walker may list `new` now: its directory is a listed folder, it is
\* not listed yet (a directory holds a name once)
canAdd(tree, new) ==
  /\ new.path \notin pathsOf(tree)
  /\ \E f \in foldersOf(tree) : f.path = Front(new.path)

\* children i and i+1 of the folder at `path` change places
RECURSIVE swapAt(_, _, _)
swapAt(node, path, i) ==
  IF node.path = path
  THEN Folder(node.path,
              [j \in 1..Len(node.children) |->
                 IF j = i THEN node.children[i + 1]
                 ELSE IF j = i + 1 THEN node.children[i]
                 ELSE node.children[j]])
  ELSE Folder(node.path,
              [j \in 1..Len(node.children) |->
                 IF node.children[j].type = "folder"
                 THEN swapAt(node.children[j], path, i)
                 ELSE node.children[j]])

-----------------------------------------------------------------------------
(* Bounds and input sets *)

\* most entries the walker lists under the root of a tree
MaxEntries == 9

\* a path from the names of its segments, each name a sequence of tokens
SrcRoot == <<Name("src")>>

NoCall == [op |-> "none"]

NoRet == <<>>

\* the additionalSegmentNames a caller passes
ExtrasSet == {<<>>, <<Name("custom")>>}

entry(type, rel) == [type |-> type, rel |-> rel]

mkNode(base, e) ==
  IF e.type = "file" THEN File(base \o e.rel) ELSE Folder(base \o e.rel, <<>>)

\* candidate entries below an FSD root
RootUniverse ==
  { entry("folder", <<Name("entities")>>),
    entry("folder", <<Name("features")>>),
    entry("folder", <<Name("shared")>>),
    entry("file",   <<Name("app")>>),
    entry("folder", <<Name("entities"), Name("pages")>>),
    entry("folder", <<Name("entities"), Name("pages"), Name("ui")>>),
    entry("file",   <<Name("entities"), Name("pages"), <<"index", "ts">> >>),
    entry("folder", <<Name("features"), Name("pages")>>),
    entry("file",   <<Name("features"), Name("pages"), <<"custom", "ts">> >>),
    entry("folder", <<Name("shared"), Name("ui")>>),
    entry("file",   <<Name("shared"), Name("ui"), <<"model", "ts">> >>) }

-----------------------------------------------------------------------------
(* Specification of the classifier over an FSD root *)

Init ==
  /\ root = Folder(SrcRoot, <<>>)
  /\ call = NoCall
  /\ ret = NoRet

\* the walker lists one more entry of `universe`
AddEntry(universe) ==
  \E e \in universe :
    LET new == mkNode(root.path, e) IN
    /\ nodeCount(root) <= MaxEntries
    /\ canAdd(root, new)
    /\ root' = addNode(root, new)
    /\ call' = NoCall
    /\ ret' = NoRet

CallGetLayers ==
  /\ call' = [op |-> "getLayers"]
  /\ ret' = getLayers(root)
  /\ UNCHANGED root

CallGetAllSlices ==
  \E extras \in ExtrasSet :
    /\ call' = [op |-> "getAllSlices", extras |-> extras]
    /\ ret' = getAllSlices(root, extras)
    /\ UNCHANGED root

CallGetAllSegments ==
  /\ call' = [op |-> "getAllSegments"]
  /\ ret' = getAllSegments(root)
  /\ UNCHANGED root

\* a mapping as the set of its <<key, path of the folder bound to it>> pairs
asMapping(m) == {<<m[i].key, m[i].value.path>> : i \in 1..Len(m)}

\* what getLayers and getSlices say of a tree, as mappings
classification(tree) ==
  LET layers == getLayers(tree) IN
  [layers |-> asMapping(layers),
   slices |-> {<<layers[i].key, x, asMapping(getSlices(layers[i].value, x))>> :
                 i \in 1..Len(layers), x \in ExtrasSet}]

\* the keys of getLayers and of getSlices of each layer, in insertion order
keyOrder(tree) ==
  LET layers == getLayers(tree) IN
  [i \in 1..Len(layers) |->
     LET slices == getSlices(layers[i].value, <<>>) IN
     <<layers[i].key, [j \in 1..Len(slices) |-> slices[j].key]>>]

\* the same directory tree listed in another order: two neighbouring
\* children of one folder change places
Reorder ==
  \E f \in foldersOf(root) :
    \E i \in 1..(Len(f.children) - 1) :
      /\ root' = swapAt(root, f.path, i)
      /\ call' = [op |-> "reorder", before |-> keyOrder(root)]
      /\ ret' = classification(root)

Next ==
  \/ AddEntry(RootUniverse)
  \/ CallGetLayers
  \/ CallGetAllSlices
  \/ CallGetAllSegments
  \/ Reorder

Spec == Init /\ [][Next]_vars

-----------------------------------------------------------------------------
(* Claims over an FSD root (Spec) *)

\* the six layer names and the two unsliced ones, as the specification lists them
SixLayerNames ==
  {Name("shared"), Name("entities"), Name("features"),
   Name("widgets"), Name("pages"), Name("app")}

UnslicedNames == {Name("shared"), Name("app")}

noKeyTwice(m) == \A i, j \in 1..Len(m) : m[i].key = m[j].key => i = j

entriesOf(m) == {<<m[i].key, m[i].value>> : i \in 1..Len(m)}

\* C5: getLayers(root) maps a name N to a node X iff X is a direct child of
\* root of type folder whose basename is N and N is one of the six layer
\* names; files bearing such a name and deeper descendants are never returned.
C5_GetLayersExact ==
  call.op = "getLayers" =>
    /\ noKeyTwice(ret)
    /\ entriesOf(ret) =
         {<<Last(c.path), c>> : c \in
            {d \in Range(root.children) :
               d.type = "folder" /\ Last(d.path) \in SixLayerNames}}

\* C5 witness: getLayers has returned a layer of a root that also holds a
\* file named like a layer and a deeper folder named like a layer
C5_Witness ==
  /\ call.op = "getLayers"
  /\ Len(ret) >= 2
  /\ \E c \in Range(root.children) : c.type = "file" /\ Last(c.path) \in SixLayerNames
  /\ \E n \in nodesOf(root) : Len(n.path) > Len(root.path) + 1
                              /\ Last(n.path) \in SixLayerNames

\* the sliced layers of getLayers(root), in iteration order
slicedLayersOf(tree) ==
  LET layers == getLayers(tree)
  IN filter(layers, {e \in Range(layers) : e.key \notin UnslicedNames})

\* C8: getAllSlices(root, extras) holds exactly the keys of getSlices(layer,
\* extras) over the sliced layers of getLayers(root), and binds each key to
\* the folder found in the last such layer iterated, tagged with that
\* layer's name.
C8_GetAllSlicesUnion ==
  call.op = "getAllSlices" =>
    LET sl == slicedLayersOf(root)
        found(i) == getSlices(sl[i].value, call.extras)
        last(k) == CHOOSE i \in 1..Len(sl) :
                     /\ hasKey(found(i), k)
                     /\ \A j \in 1..Len(sl) : hasKey(found(j), k) => j <= i
    IN /\ noKeyTwice(ret)
       /\ keysOf(ret) = UNION {keysOf(found(i)) : i \in 1..Len(sl)}
       /\ \A k \in keysOf(ret) :
            LET v == lookup(ret, k)
                f == lookup(found(last(k)), k)
            IN /\ v.path = f.path /\ v.type = f.type /\ v.children = f.children
               /\ v.layerName = sl[last(k)].key

\* C8 witness: getAllSlices has run on a root where two sliced layers hold a
\* slice of the same name and an unsliced layer holds a folder that getSlices
\* would report
C8_Witness ==
  /\ call.op = "getAllSlices"
  /\ LET sl == slicedLayersOf(root) IN
     \E i, j \in 1..Len(sl) :
        /\ i < j
        /\ keysOf(getSlices(sl[i].value, call.extras))
             \cap keysOf(getSlices(sl[j].value, call.extras)) # {}
  /\ \E c \in Range(root.children) :
        /\ c.type = "folder" /\ Last(c.path) \in UnslicedNames
        /\ getSlices(c, call.extras) # <<>>

\* the entries the claim C7 lists for a tree
expectedSegments(tree) ==
  LET layers == getLayers(tree) IN
  UNION {
    IF layers[i].key \in UnslicedNames
    THEN LET segs == getSegments(layers[i].value) IN
         {[segment |-> segs[s].value, segmentName |-> segs[s].key,
           sliceName |-> Null, layerName |-> layers[i].key] : s \in 1..Len(segs)}
    ELSE LET slices == getSlices(layers[i].value, <<>>) IN
         UNION {
           LET segs == getSegments(slices[j].value) IN
           {[segment |-> segs[s].value, segmentName |-> segs[s].key,
             sliceName |-> Some(slices[j].key), layerName |-> layers[i].key] :
              s \in 1..Len(segs)} : j \in 1..Len(slices)}
    : i \in 1..Len(layers)}

\* C7: getAllSegments(root) holds one entry per (layer, slice, segment) of
\* every sliced layer and one per segment of every unsliced layer, and no
\* other; an entry's sliceName is null iff its layer is shared or app.
C7_GetAllSegmentsExact ==
  call.op = "getAllSegments" =>
    /\ Range(ret) = expectedSegments(root)
    /\ Len(ret) = Cardinality(expectedSegments(root))
    /\ \A e \in Range(ret) : (e.sliceName = Null) <=> (e.layerName \in UnslicedNames)

\* C7 witness: getAllSegments has returned entries of a sliced and of an
\* unsliced layer
C7_Witness ==
  /\ call.op = "getAllSegments"
  /\ \E e \in Range(ret) : e.sliceName = Null
  /\ \E e \in Range(ret) : e.sliceName # Null

-----------------------------------------------------------------------------
(* Specification of getSlices over one sliced layer (SpecLayer) *)

LayerRoot == <<Name("src"), Name("entities")>>

\* candidate entries below a sliced layer
LayerUniverse ==
  { entry("folder", <<Name("user")>>),
    entry("folder", <<Name("user"), Name("ui")>>),
    entry("folder", <<Name("user"), Name("ui"), Name("lib")>>),
    entry("folder", <<Name("parent")>>),
    entry("folder", <<Name("parent"), Name("child")>>),
    entry("file",   <<Name("parent"), Name("child"), <<"model", "ts">> >>),
    entry("folder", <<Name("parent"), Name("other")>>),
    entry("folder", <<Name("parent"), Name("other"), Name("config")>>),
    entry("file",   <<Name("parent"), <<"custom", "ts">> >>),
    entry("file",   <<<<"api", "ts">> >>) }

InitLayer ==
  /\ root = Folder(LayerRoot, <<>>)
  /\ call = NoCall
  /\ ret = NoRet

CallGetSlices ==
  \E extras \in ExtrasSet :
    /\ call' = [op |-> "getSlices", extras |-> extras]
    /\ ret' = getSlices(root, extras)
    /\ UNCHANGED root

NextLayer ==
  \/ AddEntry(LayerUniverse)
  \/ CallGetSlices

SpecLayer == InitLayer /\ [][NextLayer]_vars

isPrefix(p, q) == Len(p) <= Len(q) /\ SubSeq(q, 1, Len(p)) = p

RECURSIVE chainsBelow(_)
\* every chain <<c1, ..., cn>> of folders with c1 a direct child of `folder`
\* and each c(i+1) a direct child of c(i)
chainsBelow(folder) ==
  UNION {
    IF folder.children[i].type = "folder"
    THEN {<<folder.children[i]>>}
         \cup {<<folder.children[i]>> \o c : c \in chainsBelow(folder.children[i])}
    ELSE {}
    : i \in 1..Len(folder.children)}

chainKey(chain) == [i \in 1..Len(chain) |-> Last(chain[i].path)]

\* C1: every folder getSlices(layer, extras) returns satisfies isSlice(folder,
\* extras), and no returned folder is an ancestor or descendant of another.
C1_SlicesAreSlicesOncePerPath ==
  call.op = "getSlices" =>
    /\ \A i \in 1..Len(ret) :
         /\ ret[i].value \in foldersOf(root)
         /\ isSlice(ret[i].value, call.extras)
    /\ \A i, j \in 1..Len(ret) :
         i # j => ~isPrefix(ret[i].value.path, ret[j].value.path)

\* C1 witness: getSlices has returned two slices, one of them holding a
\* folder that satisfies isSlice itself and one lying below a folder that is
\* no slice
C1_Witness ==
  /\ call.op = "getSlices"
  /\ Len(ret) >= 2
  /\ \E i \in 1..Len(ret) :
       \E c \in Range(ret[i].value.children) :
          c.type = "folder" /\ isSlice(c, call.extras)
  /\ \E i \in 1..Len(ret) : Len(ret[i].key) >= 2

\* C2: getSlices reports F under K iff F is the first folder satisfying
\* isSlice on a chain of folders from a direct child of the layer down to F,
\* and K is the basenames of that chain joined by "/".
C2_FirstSliceOnChainKeyedByChain ==
  call.op = "getSlices" =>
    /\ noKeyTwice(ret)
    /\ entriesOf(ret) =
         {<<chainKey(c), Last(c)>> : c \in
            {d \in chainsBelow(root) :
               /\ isSlice(Last(d), call.extras)
               /\ \A i \in 1..(Len(d) - 1) : ~isSlice(d[i], call.extras)}}

\* C2 witness: a direct child "parent" that is no slice holds the slice
\* "child", reported as parent/child, beside a folder without any slice below
C2_Witness ==
  /\ call.op = "getSlices"
  /\ hasKey(ret, <<Name("parent"), Name("child")>>)
  /\ ~hasKey(ret, <<Name("parent")>>)
  /\ \E c \in Range(root.children) :
        /\ c.type = "folder"
        /\ \A k \in keysOf(ret) : k[1] # Last(c.path)

-----------------------------------------------------------------------------
(* Specification of getIndexes and getSegments over one folder (SpecFolder) *)

SliceRoot == <<Name("src"), Name("entities"), Name("user")>>

\* candidate entries of a slice folder
FolderUniverse ==
  { entry("file",   <<<<"index", "ts">> >>),
    entry("file",   <<<<"index", "client", "ts">> >>),
    entry("file",   <<<<"helper", "ts">> >>),
    entry("folder", <<Name("index")>>),
    entry("folder", <<Name("ui")>>),
    entry("file",   <<<<"ui", "ts">> >>),
    entry("file",   <<Name("ui"), <<"index", "ts">> >>) }

InitFolder ==
  /\ root = Folder(SliceRoot, <<>>)
  /\ call = NoCall
  /\ ret = NoRet

CallGetIndexes ==
  \E n \in {root} \cup Range(root.children) :
    /\ call' = [op |-> "getIndexes", arg |-> n]
    /\ ret' = getIndexes(n)
    /\ UNCHANGED root

CallGetSegments ==
  /\ call' = [op |-> "getSegments"]
  /\ ret' = getSegments(root)
  /\ UNCHANGED root

NextFolder ==
  \/ AddEntry(FolderUniverse)
  \/ CallGetIndexes
  \/ CallGetSegments

SpecFolder == InitFolder /\ [][NextFolder]_vars

\* the places of the direct-child files whose basename reads "index" up to
\* its first "."
indexPlaces(folder) ==
  {i \in 1..Len(folder.children) :
     /\ folder.children[i].type = "file"
     /\ Last(folder.children[i].path)[1] = "index"}

\* C4: getIndexes(folder) is exactly the direct-child files whose basename
\* before its first "." is "index", all of them, in child order; folders are
\* never returned; getIndexes(file) is the one-element sequence <<file>>.
C4_GetIndexesExact ==
  call.op = "getIndexes" =>
    IF call.arg.type = "file"
    THEN ret = <<call.arg>>
    ELSE LET idx == indexPlaces(call.arg) IN
         /\ Len(ret) = Cardinality(idx)
         /\ \A j \in 1..Len(ret) :
              ret[j] = call.arg.children[
                         CHOOSE i \in idx : Cardinality({k \in idx : k <= i}) = j]

\* C4 witness: getIndexes of a folder holding index.ts, index.client.ts,
\* helper.ts and a folder named index has returned two files
C4_Witness ==
  /\ call.op = "getIndexes"
  /\ call.arg.type = "folder"
  /\ Len(ret) = 2
  /\ \E c \in Range(call.arg.children) : c.type = "folder" /\ Last(c.path) = Name("index")
  /\ \E c \in Range(call.arg.children) : Last(c.path) = <<"helper", "ts">>
  /\ \E c \in Range(ret) : Last(c.path) = <<"index", "client", "ts">>

\* a basename without its last extension
stripped(base) == IF Len(base) > 1 THEN Front(base) ELSE base

\* C6: getSegments(folder) is keyed by the extension-stripped basenames of
\* the direct children that getIndexes(folder) does not return, holds none
\* of the nodes getIndexes returns, and binds a key shared by several such
\* children to the one that comes last in children order.
C6_GetSegmentsExact ==
  call.op = "getSegments" =>
    LET ch == root.children
        seg == {i \in 1..Len(ch) : ch[i] \notin Range(getIndexes(root))}
    IN /\ noKeyTwice(ret)
       /\ keysOf(ret) = {stripped(Last(ch[i].path)) : i \in seg}
       /\ \A i \in 1..Len(ret) : ret[i].value \notin Range(getIndexes(root))
       /\ \A i \in seg :
            (\A j \in seg : stripped(Last(ch[j].path)) = stripped(Last(ch[i].path))
                            => j <= i)
            => lookup(ret, stripped(Last(ch[i].path))) = ch[i]

\* C6 witness: getSegments has run on a folder with two index files and two
\* other children sharing the key "ui"
C6_Witness ==
  /\ call.op = "getSegments"
  /\ Len(getIndexes(root)) >= 2
  /\ \E c, d \in Range(root.children) :
        /\ c # d
        /\ c \notin Range(getIndexes(root)) /\ d \notin Range(getIndexes(root))
        /\ stripped(Last(c.path)) = stripped(Last(d.path))
  /\ Len(ret) >= 2

-----------------------------------------------------------------------------
(* Specification of isCrossImportPublicApi (SpecCross) *)

\* the documented example: "./src/entities/user/@x/product.ts"
ExampleCrossFile ==
  File(<<Dot, Name("src"), Name("entities"), Name("user"), Name("@x"),
         <<"product", "ts">> >>)

CrossFiles ==
  { ExampleCrossFile,
    File(<<Name("src"), Name("entities"), Name("user"), Name("@x"), <<"product", "ts">> >>),
    File(<<Name("src"), Name("entities"), Name("user"), Name("@x"), <<"order", "ts">> >>),
    File(<<Name("src"), Name("entities"), Name("cart"), Name("@x"), <<"product", "ts">> >>),
    File(<<Name("src"), Name("entities"), Name("user"), Name("ui"), <<"product", "ts">> >>),
    File(<<Name("src"), Name("entities"), Name("user"), Name("@x"), Name("sub"),
           <<"product", "ts">> >>),
    File(<<Name("src"), Name("entities"), Name("user"), <<"product", "ts">> >>) }

CrossInSlices == {<<Name("user")>>, <<Name("cart")>>, <<Name("user"), Name("@x")>>}

CrossForSlices == {Name("product"), Name("order")}

CrossLayerPaths ==
  { <<Dot, Name("src"), Name("entities")>>,
    <<Name("src"), Name("entities")>>,
    <<Name("src"), Name("features")>> }

InitCross ==
  /\ root = Folder(SrcRoot, <<>>)
  /\ call = NoCall
  /\ ret = NoRet

CallIsCrossImportPublicApi ==
  \E file \in CrossFiles, inSlice \in CrossInSlices,
     forSlice \in CrossForSlices, layerPath \in CrossLayerPaths :
    /\ call' = [op |-> "isCrossImportPublicApi", file |-> file,
                inSlice |-> inSlice, forSlice |-> forSlice, layerPath |-> layerPath]
    /\ ret' = isCrossImportPublicApi(file, inSlice, forSlice, layerPath)
    /\ UNCHANGED root

NextCross == CallIsCrossImportPublicApi

SpecCross == InitCross /\ [][NextCross]_vars

\* the directory a path names, whatever "./" it is written with
sameDirectory(p, q) == normalizeSegs(p, <<>>) = normalizeSegs(q, <<>>)

\* C3: isCrossImportPublicApi(file, {inSlice, forSlice, layerPath}) is true
\* iff the file's extension-stripped basename equals forSlice and the file's
\* directory is layerPath/inSlice/@x; it is true for the documented example.
C3_CrossImportExact ==
  call.op = "isCrossImportPublicApi" =>
    ret = (/\ stripped(Last(call.file.path)) = call.forSlice
           /\ sameDirectory(Front(call.file.path),
                            call.layerPath \o call.inSlice \o <<Name("@x")>>))

-----------------------------------------------------------------------------
(* The import resolver (resolveImport of ../index.js, known here by its     *)
(* test and by section 4.2 of the specification)                           *)

Star == <<"*">>

\* the source extensions probed, in priority order
resolveExtensions == <<"ts", "tsx", "js", "jsx">>

isRelativeSpecifier(specifier) ==
  specifier # <<>> /\ (Head(specifier) = Dot \/ Head(specifier) = DotDot)

starPlace(pattern) ==
  IF \E i \in 1..Len(pattern) : pattern[i] = Star
  THEN CHOOSE i \in 1..Len(pattern) : pattern[i] = Star
  ELSE 0

\* a key without wildcard matches exactly; a key with one matches by its
\* fixed prefix and suffix
keyMatches(key, specifier) ==
  LET at == starPlace(key) IN
  IF at = 0 THEN key = specifier
  ELSE /\ Len(specifier) >= Len(key) - 1
       /\ SubSeq(specifier, 1, at - 1) = SubSeq(key, 1, at - 1)
       /\ SubSeq(specifier, Len(specifier) - (Len(key) - at) + 1, Len(specifier))
            = SubSeq(key, at + 1, Len(key))

captured(key, specifier) ==
  LET at == starPlace(key) IN
  IF at = 0 THEN <<>>
  ELSE SubSeq(specifier, at, Len(specifier) - (Len(key) - at))

substitute(template, capture) ==
  LET at == starPlace(template) IN
  IF at = 0 THEN template
  ELSE SubSeq(template, 1, at - 1) \o capture \o SubSeq(template, at + 1, Len(template))

\* path + "." + ext
withExtension(path, ext) ==
  [i \in 1..Len(path) |-> IF i = Len(path) THEN Append(path[i], ext) ELSE path[i]]

\* mutant: the directory index is probed before the extensions
probesOf_indexFirst(base) ==
  <<base>>
  \o [i \in 1..Len(resolveExtensions) |->
        withExtension(Append(base, Name("index")), resolveExtensions[i])]
  \o [i \in 1..Len(resolveExtensions) |-> withExtension(base, resolveExtensions[i])]

\* the fallback sequence of one base candidate: the literal path, the path
\* with each extension, the path as a directory with /index and each extension
probesOf(base) ==
  <<base>>
  \o [i \in 1..Len(resolveExtensions) |-> withExtension(base, resolveExtensions[i])]
  \o [i \in 1..Len(resolveExtensions) |->
        withExtension(Append(base, Name("index")), resolveExtensions[i])]

RECURSIVE firstMatchingKey(_, _, _)
\* the place of the first key of `paths`, in declaration order, that matches
firstMatchingKey(paths, specifier, i) ==
  IF i > Len(paths) THEN 0
  ELSE IF keyMatches(paths[i].key, specifier) THEN i
  ELSE firstMatchingKey(paths, specifier, i + 1)

baseCandidates(specifier, importerPath, options) ==
  IF isRelativeSpecifier(specifier)
  THEN <<join(<<Front(importerPath), specifier>>)>>
  ELSE LET k == firstMatchingKey(options.paths, specifier, 1) IN
       IF k = 0 THEN <<join(<<options.baseUrl, specifier>>)>>
       ELSE LET templates == options.paths[k].value
                capture == captured(options.paths[k].key, specifier)
            IN [t \in 1..Len(templates) |->
                  join(<<options.baseUrl, substitute(templates[t], capture)>>)]

RECURSIVE firstExisting(_, _, _)
firstExisting(probes, existing, i) ==
  IF i > Len(probes) THEN Null
  ELSE IF probes[i] \in existing THEN Some(probes[i])
  ELSE firstExisting(probes, existing, i + 1)

RECURSIVE resolveLoop(_, _, _)
resolveLoop(bases, existing, i) ==
  IF i > Len(bases) THEN Null
  ELSE LET hit == firstExisting(probesOf(bases[i]), existing, 1) IN
       IF hit # Null THEN hit ELSE resolveLoop(bases, existing, i + 1)

\* fileExists is the set of the paths it answers true for; the result is
\* Null for undefined
resolveImport(specifier, importerPath, options, existing) ==
  resolveLoop(baseCandidates(specifier, importerPath, options), existing, 1)

-----------------------------------------------------------------------------
(* Specification of resolveImport (SpecResolve) *)

\* the test's tsCompilerOptions: baseUrl ".", paths {"~/*": ["./src/*"]}
BasicOptions ==
  [baseUrl |-> <<Dot>>,
   paths   |-> <<[key |-> <<Name("~"), Star>>,
                  value |-> << <<Dot, Name("src"), Star>> >>]>>]

ResolveOptions ==
  { BasicOptions,
    [baseUrl |-> <<Dot>>,
     paths   |-> <<[key |-> <<Name("~"), Star>>,
                    value |-> << <<Dot, Name("lib"), Star>>, <<Dot, Name("src"), Star>> >>]>>],
    [baseUrl |-> <<Name("src")>>, paths |-> <<>>] }

BasicSpecifier == <<Name("~"), Name("shared"), Name("ui")>>

BasicImporter ==
  <<Name("src"), Name("pages"), Name("home"), Name("ui"), <<"HomePage", "tsx">> >>

BasicResolved == <<Name("src"), Name("shared"), Name("ui"), <<"index", "ts">> >>

ResolveSpecifiers ==
  { BasicSpecifier,
    <<Name("shared"), Name("ui")>>,
    <<Dot, Name("Button")>> }

\* the files a probe may be told exist
ResolveFiles ==
  { BasicResolved,
    <<Name("src"), Name("shared"), Name("ui"), <<"index", "tsx">> >>,
    <<Name("src"), Name("shared"), <<"ui", "ts">> >>,
    <<Name("lib"), Name("shared"), Name("ui"), <<"index", "js">> >>,
    <<Name("src"), Name("pages"), Name("home"), Name("ui"), <<"Button", "tsx">> >> }

InitResolve ==
  /\ root = Folder(SrcRoot, <<>>)
  /\ call = NoCall
  /\ ret = NoRet

CallResolveImport ==
  \E specifier \in ResolveSpecifiers, options \in ResolveOptions,
     existing \in SUBSET ResolveFiles :
    /\ call' = [op |-> "resolveImport", specifier |-> specifier,
                importerPath |-> BasicImporter, options |-> options,
                existing |-> existing]
    /\ ret' = resolveImport(specifier, BasicImporter, options, existing)
    /\ UNCHANGED root

NextResolve == CallResolveImport

SpecResolve == InitResolve /\ [][NextResolve]_vars

\* the probes the claim C9 lists for a wildcard key: template by template,
\* each with its fallback sequence, normalized
wildcardProbes(specifier, options, k) ==
  LET key == options.paths[k].key
      rest == SubSeq(specifier, Len(key), Len(specifier))
      templates == options.paths[k].value
  IN concatAll([t \in 1..Len(templates) |->
        LET base == normalize(options.baseUrl \o Front(templates[t]) \o rest)
        IN <<base,
             withExtension(base, "ts"), withExtension(base, "tsx"),
             withExtension(base, "js"), withExtension(base, "jsx"),
             withExtension(base \o <<Name("index")>>, "ts"),
             withExtension(base \o <<Name("index")>>, "tsx"),
             withExtension(base \o <<Name("index")>>, "js"),
             withExtension(base \o <<Name("index")>>, "jsx")>>])

\* C9: for a non-relative specifier matching a key "<prefix>/*",
\* resolveImport returns the first probe (templates in order, each with the
\* fallback sequence) that fileExists accepts, normalized; the test's call
\* returns "src/shared/ui/index.ts".
C9_ResolveWildcardFirstExisting ==
  (/\ call.op = "resolveImport"
   /\ Head(call.specifier) = Name("~")
   /\ call.options.paths # <<>>)
  =>
    LET probes == wildcardProbes(call.specifier, call.options, 1)
        hits == {i \in 1..Len(probes) : probes[i] \in call.existing}
    IN /\ hits = {} => ret = Null
       /\ hits # {} => ret = Some(probes[CHOOSE i \in hits : \A j \in hits : i <= j])
       /\ (/\ call.options = BasicOptions
           /\ call.specifier = BasicSpecifier
           /\ call.existing = {BasicResolved})
          => ret = Some(BasicResolved)

\* C9 witness: the test's call has returned
C9_Witness ==
  /\ call.op = "resolveImport"
  /\ call.options = BasicOptions
  /\ call.specifier = BasicSpecifier
  /\ call.importerPath = BasicImporter
  /\ call.existing = {BasicResolved}
  /\ ret # Null

====
